---- MODULE Spec2Model ----
(***************************************************************************)
(* Model of the committee solver (src/scheduling_solution.py): the name    *)
(* disambiguator make_unique, the table parser parse_csv, the model        *)
(* builder create_ilp, the call of the external solver in solve_ilp, the   *)
(* extractor set_final_assignments and the writer write_final_assignments, *)
(* run in the order main runs them.                                        *)
(***************************************************************************)
EXTENDS Integers, Sequences, FiniteSets, TLC

VARIABLES
    pc,                 \* position of the run
    lst,                \* input of make_unique when it is run on its own
    once,               \* make_unique(lst)
    twice,              \* make_unique(make_unique(lst))
    args,               \* command line: no_custom_counts, bounds
    df,                 \* the table pd.read_csv returned
    parsed,             \* the four maps parse_csv returns
    ilp,                \* what create_ilp returns
    prob,               \* status and variable values the solver left
    final_assignments,  \* what set_final_assignments returns
    output,             \* the output file: whether it was opened, and its rows
    exc,                \* the exception that ended the run, NONE while there is none
    log                 \* the kinds of warning logged so far

vars == <<pc, lst, once, twice, args, df, parsed, ilp, prob, final_assignments,
          output, exc, log>>

pipeline_vars == <<args, df, parsed, ilp, prob, final_assignments, output, exc, log>>

NONE == "None"

\* -------------------------------------------------------------- bounds
MaxLen == 3          \* longest label list given to make_unique on its own

\* ------------------------------------------------------------- helpers
Range(s) == {s[i] : i \in 1..Len(s)}

Abs(x) == IF x < 0 THEN -x ELSE x

Max(a, b) == IF a >= b THEN a ELSE b

SeqsUpTo(S, n) == UNION {[1..k -> S] : k \in 0..n}

RECURSIVE SumOver(_, _)
SumOver(S, f) ==
    IF S = {} THEN 0
    ELSE LET x == CHOOSE y \in S : TRUE IN f[x] + SumOver(S \ {x}, f)

\* --------------------------------------------------------- make_unique
\* counts[item] after the first loop: the number of occurrences of item.
Occurrences(l, item) == Cardinality({i \in 1..Len(l) : l[i] = item})

InitialCounts(l) == [item \in Range(l) |-> Occurrences(l, item)]

\* A relabelling that decrements before it formats.
RelabelOffByOne(item, k) == item \o "_" \o ToString(k - 1)

\* f"{item}_{counts[item]}"
Relabel(item, k) == item \o "_" \o ToString(k)

\* The second loop: position i, the running counts, the list built so far.
RECURSIVE RelabelLoop(_, _, _, _)
RelabelLoop(l, i, counts, uniqified_lst) ==
    IF i > Len(l) THEN uniqified_lst
    ELSE LET item == l[i] IN
         IF counts[item] > 1
         THEN RelabelLoop(l, i + 1, [counts EXCEPT ![item] = @ - 1],
                          Append(uniqified_lst, Relabel(item, counts[item])))
         ELSE RelabelLoop(l, i + 1, counts, Append(uniqified_lst, item))

make_unique(l) == RelabelLoop(l, 1, InitialCounts(l), <<>>)

\* Labels given to make_unique on its own: a base label, labels that already
\* have the form of a relabelled "A", and an unrelated one.
Labels == {"A", "A_2", "A_3", "B"}

InitUnique ==
    /\ pc = "unique_start"
    /\ lst \in SeqsUpTo(Labels, MaxLen)
    /\ once = NONE /\ twice = NONE
    /\ args = NONE /\ df = NONE /\ parsed = NONE /\ ilp = NONE
    /\ prob = NONE /\ final_assignments = NONE /\ output = NONE
    /\ exc = NONE /\ log = {}

MakeUniqueOnce ==
    /\ pc = "unique_start"
    /\ once' = make_unique(lst)
    /\ pc' = "unique_once"
    /\ UNCHANGED <<lst, twice>> /\ UNCHANGED pipeline_vars

MakeUniqueTwice ==
    /\ pc = "unique_once"
    /\ twice' = make_unique(once)
    /\ pc' = "unique_twice"
    /\ UNCHANGED <<lst, once>> /\ UNCHANGED pipeline_vars

NextUnique == MakeUniqueOnce \/ MakeUniqueTwice

SpecUnique == InitUnique /\ [][NextUnique]_vars

\* ---------------------------------------------------- the input table
\* A numeric cell holds a number of halves: 2 is 1, 5 is 2.5, 8 is 4. pandas
\* hands such a cell to int() as an integer or a float.
MaxRows == 3         \* assignment rows of a table whose row labels vary
MaxAssignments == 2  \* assignment rows of a table whose counts vary
MaxPersons == 2      \* person columns of a table whose counts vary
MaxCount == 2        \* largest count or capacity written in a table

\* int(x) of a non-negative number: truncation.
int(c) == c \div 2

Whole(n) == 2 * n

WEIGHTS == (1 :> 1) @@ (2 :> 4) @@ (3 :> 100) @@ (4 :> 10000)

WEIGHTS_TO_PREF == (1 :> 1) @@ (4 :> 2) @@ (100 :> 3) @@ (10000 :> 4)

BLANK == "NaN"

\* Row labels of the tables whose labels vary: duplicates, and a label that
\* already has the form of a relabelled one.
RowLabels == {"A", "A_2"}

\* Cells of the tables whose ranks vary: the ranks 1..4, 2.5 and 5.
RankCells == {Whole(1), Whole(2), 5, Whole(3), Whole(4), Whole(5)}

\* pd.read_csv renames repeated header names (X, X.1, ...), so the person
\* columns it returns are pairwise distinct.
PersonColumns(p) == [i \in 1..p |-> "P" \o ToString(i)]

DistinctRows(r) == [i \in 1..r |-> "S" \o ToString(i)]

\* The tables with the given row labels and p person columns. With counts
\* the first row is the "Counts" row (the persons' counts) and the column
\* Counts holds the capacities; a file with no row at all has neither.
TablesOf(no_custom_counts, rows, p, prefCells, countCells, capCells) ==
    LET r == Len(rows) IN
    IF no_custom_counts
    THEN {[Assignment |-> rows, Counts |-> <<>>, columns |-> PersonColumns(p),
           values |-> block] : block \in [1..r -> [1..p -> prefCells]]}
    ELSE {[Assignment |-> <<>>, Counts |-> <<>>, columns |-> PersonColumns(p),
           values |-> <<>>] : x \in IF r = 0 THEN {0} ELSE {}}
         \cup
         {[Assignment |-> <<"Counts">> \o rows,
           Counts |-> <<BLANK>> \o t[1],
           columns |-> PersonColumns(p),
           values |-> <<t[2]>> \o t[3]] :
              t \in [1..r -> capCells] \X [1..p -> countCells]
                    \X [1..r -> [1..p -> prefCells]]}

\* Row labels vary (at most one person, every rank 1, every count 1).
LabelTables(ncc) ==
    UNION {TablesOf(ncc, rows, p, {Whole(1)}, {Whole(1)}, {Whole(1)}) :
             rows \in SeqsUpTo(RowLabels, MaxRows), p \in 0..1}

\* Ranks vary (at most two rows and two persons, every count 1).
RankTables(ncc) ==
    UNION {TablesOf(ncc, DistinctRows(r), p, RankCells, {Whole(1)}, {Whole(1)}) :
             r \in 0..2, p \in 0..2}

\* Counts and capacities vary (every rank 1).
CountTables(ncc) ==
    UNION {TablesOf(ncc, DistinctRows(r), p, {Whole(1)},
                    {Whole(n) : n \in 1..MaxCount}, {Whole(n) : n \in 0..MaxCount}) :
             r \in 0..MaxAssignments, p \in 0..MaxPersons}

Tables(ncc) == LabelTables(ncc) \cup RankTables(ncc) \cup CountTables(ncc)

\* ------------------------------------------------------------ parse_csv
RECURSIVE Ascending(_)
Ascending(S) ==
    IF S = {} THEN <<>>
    ELSE LET m == CHOOSE x \in S : \A y \in S : x <= y
         IN  <<m>> \o Ascending(S \ {m})

\* Index of the first row the loop of parse_csv does not skip: with counts,
\* row 0 of the frame (the first here) holds the persons' counts.
FirstRow(no_custom_counts) == IF no_custom_counts THEN 1 ELSE 2

\* The (row, column) cells of the preference block in the order the two
\* nested loops visit them.
BlockCells(t, ncc) ==
    {<<i, j>> : i \in FirstRow(ncc)..Len(t.Assignment), j \in 1..Len(t.columns)}

CellOrder(t, c) == (c[1] - 1) * Len(t.columns) + c[2]

\* The cells of S as a list in visiting order.
Visited(t, S) ==
    LET ks == Ascending({CellOrder(t, c) : c \in S})
    IN  [n \in 1..Len(ks) |-> CHOOSE c \in S : CellOrder(t, c) = ks[n]]

\* weights[int(preference)] raises KeyError for a key outside 1..4.
BadRank(t, ncc) ==
    \E c \in BlockCells(t, ncc) : int(t.values[c[1]][c[2]]) \notin DOMAIN WEIGHTS

parse_csv(t, ncc) ==
    LET assignments == make_unique(t.Assignment)
        persons == make_unique(t.columns)
        cells == BlockCells(t, ncc)
        weight(c) == WEIGHTS[int(t.values[c[1]][c[2]])]
        last(a) == CHOOSE i \in FirstRow(ncc)..Len(assignments) :
                      /\ assignments[i] = a
                      /\ \A k \in FirstRow(ncc)..Len(assignments) :
                            assignments[k] = a => k <= i
        forPerson(x) == Visited(t, {c \in cells : persons[c[2]] = x})
        forAssignment(a) == Visited(t, {c \in cells : assignments[c[1]] = a})
        lastColumn(x) == CHOOSE j \in 1..Len(persons) :
                      /\ persons[j] = x
                      /\ \A k \in 1..Len(persons) : persons[k] = x => k <= j
    IN
    IF ~ncc /\ Len(t.Assignment) = 0
    THEN [error |-> "IndexError"]          \* df[0:1].values.tolist()[0]
    ELSE IF BadRank(t, ncc)
    THEN [error |-> "KeyError"]
    ELSE
      [error |-> NONE,
       duplicates |-> assignments # t.Assignment \/ persons # t.columns,
       counts_by_persons |->
          [x \in Range(persons) |->
              IF ncc THEN 1 ELSE int(t.values[1][lastColumn(x)])],
       counts_by_assignment |->
          [a \in {assignments[i] : i \in FirstRow(ncc)..Len(assignments)} |->
              IF ncc THEN 1 ELSE int(t.Counts[last(a)])],
       preferences_by_persons |->
          [x \in {persons[c[2]] : c \in cells} |->
              [n \in 1..Len(forPerson(x)) |->
                  <<assignments[forPerson(x)[n][1]], weight(forPerson(x)[n])>>]],
       preferences_by_assignment |->
          [a \in {assignments[c[1]] : c \in cells} |->
              [n \in 1..Len(forAssignment(a)) |->
                  <<persons[forAssignment(a)[n][2]], weight(forAssignment(a)[n])>>]]]

EmptyParsed == [error |-> NONE]

\* Before solve_ilp no variable has a value.
Unsolved == [status |-> NONE, bound |-> FALSE, value |-> <<>>]

Init ==
    /\ pc = "start"
    /\ lst = <<>> /\ once = <<>> /\ twice = <<>>
    /\ args \in [no_custom_counts : BOOLEAN, bounds : {"equal", "lower", "upper"}]
    /\ df \in Tables(args.no_custom_counts)
    /\ parsed = EmptyParsed
    /\ ilp = NONE /\ prob = Unsolved /\ final_assignments = NONE
    /\ output = [opened |-> FALSE, rows |-> <<>>]
    /\ exc = NONE /\ log = {}

ParseCsv ==
    /\ pc = "start"
    /\ parsed' = parse_csv(df, args.no_custom_counts)
    /\ IF parsed'.error # NONE
       THEN pc' = "crashed" /\ exc' = parsed'.error /\ log' = log
       ELSE /\ pc' = "parsed" /\ exc' = exc
            /\ log' = IF parsed'.duplicates THEN log \cup {"duplicate"} ELSE log
    /\ UNCHANGED <<lst, once, twice, args, df, ilp, prob, final_assignments, output>>

\* ----------------------------------------------------------- create_ilp
\* A decision variable is named by its person and its place in that
\* person's preference list. A linear expression is a set of variables
\* (each with coefficient 1) plus a constant.
Sum(V) == [vars |-> V, const |-> 0]

Const(n) == [vars |-> {}, const |-> n]

\* An "upper" bound read as a floor.
str_bounds_expr_swapped(left, bounds, right) ==
    CASE bounds = "equal" -> [op |-> "==", lhs |-> left, rhs |-> right]
      [] bounds = "lower" -> [op |-> ">=", lhs |-> left, rhs |-> right]
      [] bounds = "upper" -> [op |-> ">=", lhs |-> left, rhs |-> right]
      [] OTHER -> [op |-> "NotImplementedError", lhs |-> left, rhs |-> right]

str_bounds_expr(left, bounds, right) ==
    CASE bounds = "equal" -> [op |-> "==", lhs |-> left, rhs |-> right]
      [] bounds = "lower" -> [op |-> ">=", lhs |-> left, rhs |-> right]
      [] bounds = "upper" -> [op |-> ">=", lhs |-> right, rhs |-> left]
      [] OTHER -> [op |-> "NotImplementedError", lhs |-> left, rhs |-> right]

Variables(preferences_by_persons) ==
    UNION {{<<x, n>> : n \in 1..Len(preferences_by_persons[x])} :
              x \in DOMAIN preferences_by_persons}

create_ilp(preferences_by_persons, counts_by_persons, counts_by_assignment, bounds) ==
    LET V == Variables(preferences_by_persons)
        assignmentOf(v) == preferences_by_persons[v[1]][v[2]][1]
        preferenceOf(v) == preferences_by_persons[v[1]][v[2]][2]
        constraints_by_persons ==
            [x \in {v[1] : v \in V} |-> Sum({v \in V : v[1] = x})]
        constraints_by_assignment ==
            [a \in {assignmentOf(v) : v \in V} |->
                Sum({v \in V : assignmentOf(v) = a})]
    IN
    [variables_by_persons |->
        [x \in DOMAIN preferences_by_persons |->
            [n \in 1..Len(preferences_by_persons[x]) |->
                <<preferenceOf(<<x, n>>), assignmentOf(<<x, n>>), <<x, n>>>>]],
     cost |-> [v \in V |-> preferenceOf(v)],
     persons_constraint |->
        [k \in DOMAIN constraints_by_persons |->
            [op |-> "==", lhs |-> constraints_by_persons[k],
             rhs |-> Const(counts_by_persons[k])]],
     assignments_constraint |->
        [k \in DOMAIN constraints_by_assignment |->
            str_bounds_expr(constraints_by_assignment[k], bounds,
                            Const(counts_by_assignment[k]))]]

CreateIlp ==
    /\ pc = "parsed"
    /\ ilp' = create_ilp(parsed.preferences_by_persons, parsed.counts_by_persons,
                         parsed.counts_by_assignment, args.bounds)
    /\ pc' = "built"
    /\ UNCHANGED <<lst, once, twice, args, df, parsed, prob, final_assignments,
                   output, exc, log>>

\* ------------------------------------------------------------ the solver
\* What cvxpy's Problem.solve is relied on to do: a model with a solution
\* gets status "optimal" and a minimum-cost 0/1 value on every variable; a
\* model with none gets "infeasible" and no values (Variable.value stays
\* None); a solver that stops early reports another status, with no values
\* or with the values of some solution. Values are counted in units of
\* 1e-9: a solver's value of a variable set to 1 may be off by a rounding
\* error.
RelTolInverse == 1000000000

ModelVariables(m) == DOMAIN m.cost

Valuations(m) == [ModelVariables(m) -> {0, 1}]

Eval(e, val) == e.const + SumOver(e.vars, val)

Holds(c, val) ==
    CASE c.op = "==" -> Eval(c.lhs, val) = Eval(c.rhs, val)
      [] c.op = ">=" -> Eval(c.lhs, val) >= Eval(c.rhs, val)

Satisfies(m, val) ==
    /\ \A k \in DOMAIN m.persons_constraint : Holds(m.persons_constraint[k], val)
    /\ \A k \in DOMAIN m.assignments_constraint :
          Holds(m.assignments_constraint[k], val)

Feasible(m) == {val \in Valuations(m) : Satisfies(m, val)}

Cost(m, val) == SumOver(ModelVariables(m), [v \in ModelVariables(m) |-> m.cost[v] * val[v]])

Optimal(m) ==
    LET F == Feasible(m)
        c == [val \in F |-> Cost(m, val)]
    IN  {val \in F : \A other \in F : c[val] <= c[other]}

\* The values the solver binds for a 0/1 solution, each 1 off by err units.
Bound(m, val, err) ==
    [v \in ModelVariables(m) |-> IF val[v] = 1 THEN RelTolInverse - err ELSE 0]

Unbound == <<>>

SolverOutcomes(m) ==
    LET F == Feasible(m) IN
      {[status |-> "optimal", bound |-> TRUE, value |-> Bound(m, val, err)] :
          val \in Optimal(m), err \in {0, 1}}
      \cup {[status |-> "infeasible", bound |-> FALSE, value |-> Unbound] :
               x \in IF F = {} THEN {0} ELSE {}}
      \cup {[status |-> "other", bound |-> FALSE, value |-> Unbound]}
      \cup {[status |-> "other", bound |-> TRUE, value |-> Bound(m, val, 2)] :
               val \in F}

\* solve_ilp: one call of the solver, a warning for a status other than
\* "optimal".
SolveIlp ==
    /\ pc = "built"
    /\ \E outcome \in SolverOutcomes(ilp) :
          /\ prob' = outcome
          /\ log' = IF outcome.status # "optimal" THEN log \cup {"not optimal"} ELSE log
    /\ pc' = "solved"
    /\ UNCHANGED <<lst, once, twice, args, df, parsed, ilp, final_assignments,
                   output, exc>>

\* ------------------------------------------------ set_final_assignments
\* math.isclose(a, b) with its default rel_tol of 1e-09 and abs_tol of 0.
isclose(a, b) == Abs(a - b) <= Max(Abs(a), Abs(b)) \div RelTolInverse

\* variable.value[0] of a variable with no value raises TypeError.
ExtractionFails(variables_by_persons, solved) ==
    /\ ~solved.bound
    /\ \E x \in DOMAIN variables_by_persons : Len(variables_by_persons[x]) > 0

set_final_assignments(variables_by_persons, solved) ==
    LET chosen(x) ==
            Ascending({n \in 1..Len(variables_by_persons[x]) :
                          isclose(solved.value[variables_by_persons[x][n][3]],
                                  RelTolInverse)})
    IN  [x \in {y \in DOMAIN variables_by_persons : Len(chosen(y)) > 0} |->
            [n \in 1..Len(chosen(x)) |->
                <<variables_by_persons[x][chosen(x)[n]][2],
                  variables_by_persons[x][chosen(x)[n]][1]>>]]

SetFinalAssignments ==
    /\ pc = "solved"
    /\ IF ExtractionFails(ilp.variables_by_persons, prob)
       THEN /\ pc' = "crashed" /\ exc' = "TypeError"
            /\ UNCHANGED final_assignments
       ELSE /\ final_assignments' = set_final_assignments(ilp.variables_by_persons, prob)
            /\ pc' = "extracted" /\ exc' = exc
    /\ UNCHANGED <<lst, once, twice, args, df, parsed, ilp, prob, output, log>>

\* ---------------------------------------------- write_final_assignments
\* The rows written after the header, in any order of the persons (the
\* order of a person's own rows is that of the list).
RECURSIVE RowsOf(_, _)
RowsOf(final, keys) ==
    IF keys = {} THEN <<>>
    ELSE LET x == CHOOSE y \in keys : TRUE
         IN  [n \in 1..Len(final[x]) |->
                 <<x, final[x][n][1], WEIGHTS_TO_PREF[final[x][n][2]]>>]
             \o RowsOf(final, keys \ {x})

write_final_assignments(final) == RowsOf(final, DOMAIN final)

WriteFinalAssignments ==
    /\ pc = "extracted"
    /\ output' = [opened |-> TRUE, rows |-> write_final_assignments(final_assignments)]
    /\ pc' = "written"
    /\ UNCHANGED <<lst, once, twice, args, df, parsed, ilp, prob, final_assignments,
                   exc, log>>

Next == ParseCsv \/ CreateIlp \/ SolveIlp \/ SetFinalAssignments \/ WriteFinalAssignments

Spec == Init /\ [][Next]_vars

\* ------------------------------------------------ claims on make_unique
AllDistinct(s) == \A i, j \in 1..Len(s) : i # j => s[i] # s[j]

\* C5: make_unique returns a list of the same length in which no two labels
\* are equal, for every input list.
C5_Unique ==
    pc \in {"unique_once", "unique_twice"} =>
        Len(once) = Len(lst) /\ AllDistinct(once)

\* Which occurrence of its label position i of l holds, counted from the first.
OccurrenceIndex(l, i) == Cardinality({j \in 1..i : l[j] = l[i]})

C10_Idempotent == pc = "unique_twice" => twice = once

\* ------------------------------------------------ claims on the pipeline
Assigned(val, V) == SumOver(V, val)

\* What the claim says a valuation must satisfy, read off the inputs of
\* create_ilp: the persons' counts as equalities, the capacities by mode.
SaturatedAndBounded(prefs, counts_by_persons, counts_by_assignment, bounds, val) ==
    LET V == Variables(prefs)
        slots(x) == Assigned(val, {v \in V : v[1] = x})
        heads(a) == Assigned(val, {v \in V : prefs[v[1]][v[2]][1] = a})
    IN  /\ \A x \in DOMAIN prefs : slots(x) = counts_by_persons[x]
        /\ \A a \in {prefs[v[1]][v[2]][1] : v \in V} :
              CASE bounds = "equal" -> heads(a) = counts_by_assignment[a]
                [] bounds = "lower" -> heads(a) >= counts_by_assignment[a]
                [] bounds = "upper" -> heads(a) <= counts_by_assignment[a]

\* C1: the constraints create_ilp returns admit exactly the 0/1 valuations in
\* which every person has as many slots as their count and every assignment's
\* head count is ==, >= or <= its capacity according to the bound mode.
C1_Constraints ==
    pc = "built" =>
        \A val \in Valuations(ilp) :
            Satisfies(ilp, val) <=>
                SaturatedAndBounded(parsed.preferences_by_persons,
                                    parsed.counts_by_persons,
                                    parsed.counts_by_assignment, args.bounds, val)

\* A model of two persons under "upper" that admits a valuation leaving an
\* assignment under its capacity and rejects another valuation.
C1_Witness ==
    /\ pc = "built"
    /\ args.bounds = "upper"
    /\ Cardinality(DOMAIN parsed.preferences_by_persons) >= 2
    /\ \E val \in Valuations(ilp) :
          /\ Satisfies(ilp, val)
          /\ \E a \in DOMAIN ilp.assignments_constraint :
                Eval(ilp.assignments_constraint[a].lhs, val)
                    > Eval(ilp.assignments_constraint[a].rhs, val)
    /\ \E val \in Valuations(ilp) : ~Satisfies(ilp, val)

\* C2: a status other than "optimal" is a warning and never a crash: the run
\* goes on to extraction and to the output.
C2_NonOptimalIsNoCrash ==
    prob.status \notin {NONE, "optimal"} =>
        "not optimal" \in log /\ pc # "crashed"

\* Number of rows of the output file that name person x.
RowsFor(x) == Cardinality({n \in 1..Len(output.rows) : output.rows[n][1] = x})

\* C3: no output is written in which a person of the model has a number of
\* rows other than that person's required count.
C3_CountMismatchIsFatal ==
    output.opened =>
        \A x \in DOMAIN ilp.variables_by_persons :
            RowsFor(x) = parsed.counts_by_persons[x]

\* Number of placements of cost w in the extracted solution.
Placements(w) ==
    SumOver(DOMAIN final_assignments,
            [x \in DOMAIN final_assignments |->
                Cardinality({n \in 1..Len(final_assignments[x]) :
                                final_assignments[x][n][2] = w})])

\* C4: one placement at rank r costs strictly more than all the placements
\* at rank r-1 of a solution taken together.
C4_TierDominance ==
    (pc = "extracted" /\ prob.status = "optimal") =>
        \A r \in 2..4 : WEIGHTS[r] > WEIGHTS[r - 1] * Placements(WEIGHTS[r - 1])

ExactlyOne(list, key) == Cardinality({n \in 1..Len(list) : list[n][1] = key}) = 1

\* C7: after a successful parse every person's list holds exactly one entry
\* per assignment row and every assignment's list exactly one per person column.
C7_Density ==
    pc = "parsed" =>
        LET nAssignments == Len(df.Assignment) - FirstRow(args.no_custom_counts) + 1
            nPersons == Len(df.columns)
        IN  /\ \A x \in DOMAIN parsed.preferences_by_persons :
                 /\ Len(parsed.preferences_by_persons[x]) = nAssignments
                 /\ \A a \in DOMAIN parsed.counts_by_assignment :
                       ExactlyOne(parsed.preferences_by_persons[x], a)
            /\ \A a \in DOMAIN parsed.preferences_by_assignment :
                 /\ Len(parsed.preferences_by_assignment[a]) = nPersons
                 /\ \A x \in DOMAIN parsed.counts_by_persons :
                       ExactlyOne(parsed.preferences_by_assignment[a], x)

\* A cell of the preference block that is none of 1, 2, 3, 4.
OutOfRangeRank ==
    \E c \in BlockCells(df, args.no_custom_counts) :
        df.values[c[1]][c[2]] \notin {Whole(r) : r \in 1..4}

\* C8: a rank outside {1,2,3,4} ends the run in parse_csv: nothing after it
\* runs and no output file is opened.
C8_BadRankIsFatal ==
    OutOfRangeRank => pc \in {"start", "crashed"} /\ ~output.opened

\* No person column, or no assignment row.
EmptyTable ==
    \/ Len(df.columns) = 0
    \/ Len(df.Assignment) < FirstRow(args.no_custom_counts)

\* C9: a table with no persons or no assignments ends the run before the
\* model is built: nothing is solved and no output file is opened.
C9_EmptyTableIsFatal ==
    EmptyTable => pc \in {"start", "crashed"} /\ ~output.opened

====
